---- MODULE Spec2Model ----
(***************************************************************************)
(* A model of the arXiv Digest web front end:                              *)
(*   - UserPage   (the topic editor, web/app/[username]/page.tsx),         *)
(*   - DigestPage (web/app/[username]/digest/page.tsx),                    *)
(*   - the POST /api/digest proxy route,                                   *)
(*   - the digest backend behind it, known only through its interface.     *)
(*                                                                         *)
(* JavaScript strings are modelled as sequences of one-character strings,  *)
(* so that trim, toLowerCase and the regular-expression replacements of    *)
(* slugify are computed character by character.                            *)
(***************************************************************************)
EXTENDS Integers, Sequences, FiniteSets, TLC

VARIABLES
    \* ---- UserPage (topic editor) ----
    editorMounted,   \* the UserPage component is mounted
    loading,         \* useState(true): the initial GET has not answered yet
    topics,          \* useState<Topic[]>
    saving,          \* useState(false)
    pending,         \* bodies of POST /api/topics/<username> requests in flight
    addingTopic,     \* useState(false)
    newTopicName,    \* useState("")
    newTopicDesc,    \* useState("")
    saves,           \* number of POST /api/topics/<username> requests sent
    lastPersisted,   \* the list of the latest persist call, None before it
    \* ---- the topics store behind /api/topics/<username> ----
    kvTopics,        \* the topic list the backend holds for the user
    \* ---- the browser tab ----
    storage,         \* sessionStorage["topics:<username>"], None when absent
    \* ---- DigestPage ----
    fetchedRef,      \* useRef(false)
    runs,            \* number of runDigest invocations of this mount
    pc,              \* position of the runDigest invocation
    runTopics,       \* runDigest's local const topics
    stepIdx,         \* runDigest's local let stepIdx
    interval,        \* the progress interval is set and not cleared
    resultsTimer,    \* the 600 ms setTimeout is pending
    phase, progress, progressLabel, papers, stats, errorMsg,
    allTopics, activeTopics, topicPaletteMap, currentPage,
    \* ---- messages in flight between page, proxy route and backend ----
    pageReq,         \* requests sent by the page, not yet taken by the route
    backendReq,      \* bodies the route forwarded, as received by the backend
    backendRes,      \* the backend's answer to the route, None before it
    routeRes,        \* the route's answer to the page, None before it
    \* ---- one run of the matching core (the pipeline behind the backend) ----
    corePapers,      \* the batch of papers of the run, in source order
    threshold,       \* the similarity threshold of the run, in hundredths
    kwDone,          \* papers the Lexical Matcher has processed
    kwMatches,       \* (paper, topic) pairs matched lexically
    semDone,         \* papers the Semantic Matcher has processed
    semEvaluated,    \* (paper, topic) pairs the Semantic Matcher evaluated
    semMatches,      \* (paper, topic) pairs matched semantically
    digest           \* the assembled digest, None before assembly

editorVars == <<editorMounted, loading, topics, saving, pending,
                addingTopic, newTopicName, newTopicDesc, saves,
                lastPersisted, kvTopics>>
runVars    == <<fetchedRef, runs, pc, runTopics, stepIdx, interval, resultsTimer>>
viewVars   == <<phase, progress, progressLabel, papers, stats, errorMsg,
                allTopics, activeTopics, topicPaletteMap, currentPage>>
netVars    == <<pageReq, backendReq, backendRes, routeRes>>
digestVars == <<runVars, viewVars, netVars>>
coreVars   == <<corePapers, threshold, kwDone, kwMatches, semDone,
                semEvaluated, semMatches, digest>>
vars       == <<editorVars, storage, digestVars, coreVars>>

\* A nullable value: None, or Some(v)
None == <<>>
Some(v) == <<v>>

---------------------------------------------------------------------------
(* Bounds of the model *)

\* the user does not go on editing once this many saves were sent
MaxSaves == 2
\* the longest papers array a digest response carries
MaxPapers == 8
\* the length of the pattern of topic lists a papers array repeats
PatternLen == 3

---------------------------------------------------------------------------
(* Strings *)

RECURSIVE trimStart(_)
trimStart(s) ==
    IF s # <<>> /\ Head(s) = " " THEN trimStart(Tail(s)) ELSE s

RECURSIVE trimEnd(_)
trimEnd(s) ==
    IF s # <<>> /\ s[Len(s)] = " " THEN trimEnd(SubSeq(s, 1, Len(s) - 1)) ELSE s

\* String.prototype.trim
trim(s) == trimEnd(trimStart(s))

lowerOf(c) == IF c = "A" THEN "a" ELSE IF c = "B" THEN "b" ELSE c

\* String.prototype.toLowerCase
toLowerCase(s) == [i \in 1..Len(s) |-> lowerOf(s[i])]

\* .replace(/\s+/g, "-"): every maximal run of white space becomes one "-"
RECURSIVE replaceSpaceRuns(_)
replaceSpaceRuns(s) ==
    IF s = <<>> THEN <<>>
    ELSE IF Head(s) = " "
         THEN <<"-">> \o replaceSpaceRuns(trimStart(s))
         ELSE <<Head(s)>> \o replaceSpaceRuns(Tail(s))

\* the characters of [a-z0-9-] that the model's strings use
SlugChars == {"a", "b", "d", "x", "y", "0", "-"}

\* .replace(/[^a-z0-9-]/g, "")
removeNonSlugChars(s) == SelectSeq(s, LAMBDA c : c \in SlugChars)

slugify(name) == removeNonSlugChars(replaceSpaceRuns(toLowerCase(name)))

---------------------------------------------------------------------------
(* JSON text.  The text of a Topic is the tuple of its property values in  *)
(* the order JSON.stringify writes them; JSON.parse rebuilds the object.   *)

JSONstringifyTopic(t) == <<t.id, t.name, t.enabled, t.terms, t.description>>

JSONparseTopic(x) ==
    [id |-> x[1], name |-> x[2], enabled |-> x[3], terms |-> x[4],
     description |-> x[5]]

\* JSON.stringify of a Topic[]
JSONstringifyTopics(ts) == [i \in 1..Len(ts) |-> JSONstringifyTopic(ts[i])]

\* JSON.parse of the text of a Topic[]
JSONparseTopics(txt) == [i \in 1..Len(txt) |-> JSONparseTopic(txt[i])]

---------------------------------------------------------------------------
(* UserPage: the topic editor.                                             *)
(* Which card is expanded (expandedId) is not modelled: the user can       *)
(* expand any card at any time, so the handlers of an expanded card can be *)
(* invoked for every topic of the list.  The text of a card's term field   *)
(* (newTermInputs) is the input of addTerm: the user can type any text     *)
(* into it before invoking addTerm.                                        *)

Username == "kyungmin"

\* what the user may type into the topic name field
NameInputs == { <<>>, <<" ">>, <<"A", "!">>, <<" ", "A", "!">> }

\* what the user may type into the new topic's description field
DescInputs == { <<>>, <<"d", " ">> }

\* what the user may type into a card's description field
CardDescInputs == { <<"d">> }

\* what the user may type into a term field
TermInputs == { <<>>, <<" ">>, <<"x", " ">> }

Topic(id, name, enabled, terms, description) ==
    [id |-> id, name |-> name, enabled |-> enabled, terms |-> terms,
     description |-> description]

\* topic lists GET /api/topics/<username> may answer with: lists this
\* editor saved earlier
InitialTopicLists ==
    { <<>>,
      << Topic(<<"a">>, <<"A", "!">>, TRUE, << <<"x">> >>, <<"d">>) >>,
      << Topic(<<"a">>, <<"A", "!">>, FALSE, << <<"y">>, <<"x">> >>, <<>>),
         Topic(<<"-", "a">>, <<"A", "!">>, TRUE, <<>>, <<"d">>) >>,
      << Topic(<<"a">>, <<"A", "!">>, TRUE, << <<"y">> >>, <<"d">>),
         Topic(<<"a">>, <<"A", "!">>, TRUE, <<>>, <<>>) >> }

\* every id a topic of the model can carry
IdUniverse ==
    { slugify(n) : n \in { m \in NameInputs : trim(m) # <<>> } }
      \cup UNION { { l[i].id : i \in 1..Len(l) } : l \in InitialTopicLists }

\* every term a topic of the model can carry
TermUniverse ==
    { trim(v) : v \in { w \in TermInputs : trim(w) # <<>> } }
      \cup UNION { UNION { { l[i].terms[j] : j \in 1..Len(l[i].terms) } :
                           i \in 1..Len(l) } : l \in InitialTopicLists }

TopicIds(ts) == { ts[i].id : i \in 1..Len(ts) }

\* topics.find(t => t.id === id): the first topic with that id
find(ts, id) ==
    LET I == { i \in 1..Len(ts) : ts[i].id = id }
    IN  IF I = {} THEN None
        ELSE Some(ts[CHOOSE i \in I : \A j \in I : i <= j])

\* terms.includes(val)
includes(terms, val) == \E i \in 1..Len(terms) : terms[i] = val

\* topics.filter(t => t.enabled).length
enabledCount(ts) == Cardinality({ i \in 1..Len(ts) : ts[i].enabled })

\* persist(updated): setSaving(true) and the POST is in flight
persist(updated) ==
    /\ saving' = TRUE
    /\ pending' = Append(pending, <<"topics", JSONstringifyTopics(updated)>>)
    /\ saves' = saves + 1
    /\ lastPersisted' = Some(updated)

\* updateTopics(updated): setTopics(updated); persist(updated)
updateTopics(updated) ==
    /\ topics' = updated
    /\ persist(updated)

\* the editor is shown and the user goes on editing
Editing ==
    /\ editorMounted /\ ~loading
    /\ saves < MaxSaves

\* the mount effect's fetch answers: setTopics(data); setLoading(false)
loadTopics ==
    /\ editorMounted /\ loading
    /\ topics' = kvTopics
    /\ loading' = FALSE
    /\ UNCHANGED <<editorMounted, saving, pending, saves, lastPersisted, kvTopics,
                   addingTopic, newTopicName, newTopicDesc, storage, digestVars, coreVars>>

\* the list the backend stores for a POST /topics/<username> it receives
storedTopics(req) == JSONparseTopics(req[2])

\* one POST /api/topics/<username> is forwarded by the proxy route, stored
\* by the backend and answered: setSaving(false)
persistDone ==
    /\ \E i \in 1..Len(pending) :
          /\ kvTopics' = storedTopics(pending[i])
          /\ pending' = SubSeq(pending, 1, i - 1) \o SubSeq(pending, i + 1, Len(pending))
    /\ saving' = FALSE
    /\ UNCHANGED <<editorMounted, loading, topics, saves, lastPersisted,
                   addingTopic, newTopicName, newTopicDesc, storage, digestVars, coreVars>>

\* "+ New topic": setAddingTopic(true)
openNewTopic ==
    /\ Editing /\ ~addingTopic
    /\ addingTopic' = TRUE
    /\ UNCHANGED <<editorMounted, loading, topics, saving, pending, saves,
                   lastPersisted, kvTopics,
                   newTopicName, newTopicDesc, storage, digestVars, coreVars>>

\* "Cancel": setAddingTopic(false); setNewTopicName(""); setNewTopicDesc("")
cancelNewTopic ==
    /\ Editing /\ addingTopic
    /\ addingTopic' = FALSE
    /\ newTopicName' = <<>>
    /\ newTopicDesc' = <<>>
    /\ UNCHANGED <<editorMounted, loading, topics, saving, pending, saves,
                   lastPersisted, kvTopics,
                   storage, digestVars, coreVars>>

\* onChange of the topic name field
setNewTopicName(v) ==
    /\ Editing /\ addingTopic
    /\ newTopicName' = v
    /\ UNCHANGED <<editorMounted, loading, topics, saving, pending, saves,
                   lastPersisted, kvTopics,
                   addingTopic, newTopicDesc, storage, digestVars, coreVars>>

\* onChange of the new topic's description field
setNewTopicDesc(v) ==
    /\ Editing /\ addingTopic
    /\ newTopicDesc' = v
    /\ UNCHANGED <<editorMounted, loading, topics, saving, pending, saves,
                   lastPersisted, kvTopics,
                   addingTopic, newTopicName, storage, digestVars, coreVars>>

\* variant: sets the flag instead of flipping it
toggleEnabledMap_SetTrue(ts, id) ==
    [i \in 1..Len(ts) |->
        IF ts[i].id = id THEN [ts[i] EXCEPT !.enabled = TRUE] ELSE ts[i]]

\* topics.map(t => t.id === id ? { ...t, enabled: !t.enabled } : t)
toggleEnabledMap(ts, id) ==
    [i \in 1..Len(ts) |->
        IF ts[i].id = id THEN [ts[i] EXCEPT !.enabled = ~ts[i].enabled] ELSE ts[i]]

toggleEnabled(id) ==
    /\ Editing /\ id \in TopicIds(topics)
    /\ updateTopics(toggleEnabledMap(topics, id))
    /\ UNCHANGED <<editorMounted, loading, kvTopics,
                   addingTopic, newTopicName, newTopicDesc, storage, digestVars, coreVars>>

\* topics.map(t => t.id === topicId
\*                   ? { ...t, terms: t.terms.filter(x => x !== term) } : t)
removeTermMap(ts, topicId, term) ==
    [i \in 1..Len(ts) |->
        IF ts[i].id = topicId
        THEN [ts[i] EXCEPT !.terms = SelectSeq(ts[i].terms, LAMBDA x : x # term)]
        ELSE ts[i]]

\* the "x" of a term chip of a card
removeTerm(topicId, term) ==
    /\ Editing
    /\ \E i \in 1..Len(topics) :
          topics[i].id = topicId /\ includes(topics[i].terms, term)
    /\ updateTopics(removeTermMap(topics, topicId, term))
    /\ UNCHANGED <<editorMounted, loading, kvTopics,
                   addingTopic, newTopicName, newTopicDesc, storage, digestVars, coreVars>>

\* variant: without the terms.includes(val) test
addTermRejects_NoIncludes(ts, topicId, val) ==
    val = <<>> \/ find(ts, topicId) = None

\* addTerm's early returns:
\*   if (!val) return;  if (!topic || topic.terms.includes(val)) return;
addTermRejects(ts, topicId, val) ==
    \/ val = <<>>
    \/ find(ts, topicId) = None
    \/ includes(find(ts, topicId)[1].terms, val)

\* topics.map(t => t.id === topicId ? { ...t, terms: [...t.terms, val] } : t)
addTermMap(ts, topicId, val) ==
    [i \in 1..Len(ts) |->
        IF ts[i].id = topicId
        THEN [ts[i] EXCEPT !.terms = Append(ts[i].terms, val)]
        ELSE ts[i]]

\* Enter in, or "Add" beside, a card's term field, which holds the text
\* input (newTermInputs[topicId]; undefined and "" behave alike)
addTerm(topicId, input) ==
    /\ Editing /\ topicId \in TopicIds(topics)
    /\ LET val == trim(input)
       IN  IF addTermRejects(topics, topicId, val)
           THEN UNCHANGED <<topics, saving, pending, saves, lastPersisted>>
           ELSE updateTopics(addTermMap(topics, topicId, val))
    /\ UNCHANGED <<editorMounted, loading, kvTopics, addingTopic,
                   newTopicName, newTopicDesc, storage, digestVars, coreVars>>

\* topics.filter(t => t.id !== id)
removeTopicFilter(ts, id) == SelectSeq(ts, LAMBDA t : t.id # id)

removeTopic(id) ==
    /\ Editing /\ id \in TopicIds(topics)
    /\ updateTopics(removeTopicFilter(topics, id))
    /\ UNCHANGED <<editorMounted, loading, kvTopics,
                   addingTopic, newTopicName, newTopicDesc, storage, digestVars, coreVars>>

\* variant: tests the name without trimming it
addTopicRejects_NoTrim(name) == name = <<>>

\* addTopic's early return: if (!newTopicName.trim()) return;
addTopicRejects(name) == trim(name) = <<>>

\* the Topic addTopic builds from the form's two fields
newTopic(name, desc) ==
    [id |-> slugify(name), name |-> trim(name), enabled |-> TRUE,
     terms |-> <<>>, description |-> trim(desc)]

\* Enter in the name field, or "Create"
addTopic ==
    /\ Editing /\ addingTopic
    /\ IF addTopicRejects(newTopicName)
       THEN UNCHANGED <<topics, saving, pending, saves, lastPersisted,
                        newTopicName, newTopicDesc, addingTopic>>
       ELSE /\ updateTopics(Append(topics, newTopic(newTopicName, newTopicDesc)))
            /\ newTopicName' = <<>>
            /\ newTopicDesc' = <<>>
            /\ addingTopic' = FALSE
    /\ UNCHANGED <<editorMounted, loading, kvTopics, storage, digestVars, coreVars>>

\* topics.map(t => t.id === topic.id ? { ...t, description: e.target.value } : t)
updateDescriptionMap(ts, id, desc) ==
    [i \in 1..Len(ts) |->
        IF ts[i].id = id THEN [ts[i] EXCEPT !.description = desc] ELSE ts[i]]

\* onChange of a card's description: setTopics(...)
updateDescription(id, desc) ==
    /\ Editing /\ id \in TopicIds(topics)
    /\ topics' = updateDescriptionMap(topics, id, desc)
    /\ UNCHANGED <<editorMounted, loading, saving, pending, saves,
                   lastPersisted, kvTopics,
                   addingTopic, newTopicName, newTopicDesc,
                   storage, digestVars, coreVars>>

\* onBlur of a card's description: persist(topics)
saveDescription ==
    /\ Editing /\ topics # <<>>
    /\ persist(topics)
    /\ UNCHANGED <<editorMounted, loading, topics, kvTopics,
                   addingTopic, newTopicName, newTopicDesc, storage, digestVars, coreVars>>

\* variant: stores the enabled topics only
storedItem_EnabledOnly(ts) ==
    JSONstringifyTopics(SelectSeq(ts, LAMBDA t : t.enabled))

\* the value showDigest stores: JSON.stringify(topics)
storedItem(ts) == JSONstringifyTopics(ts)

\* "Show Digest" (disabled while no topic is enabled):
\*   sessionStorage.setItem(key, JSON.stringify(topics)); router.push(digest)
showDigest ==
    /\ editorMounted /\ ~loading /\ enabledCount(topics) > 0
    /\ storage' = Some(storedItem(topics))
    /\ editorMounted' = FALSE
    /\ UNCHANGED <<loading, topics, saving, pending, saves,
                   lastPersisted, kvTopics,
                   addingTopic, newTopicName, newTopicDesc, digestVars, coreVars>>

---------------------------------------------------------------------------
(* DigestPage *)

PROGRESS_STEPS ==
    << [pct |-> 8,   label |-> "Connecting to arXiv..."],
       [pct |-> 25,  label |-> "Fetching recent papers..."],
       [pct |-> 45,  label |-> "Running keyword filter..."],
       [pct |-> 70,  label |-> "Running semantic matching..."],
       [pct |-> 88,  label |-> "Assembling digest..."],
       [pct |-> 100, label |-> "Done!"] >>

PAGE_SIZE == 5

\* CHIP_PALETTES.length
CHIP_PALETTES_length == 6

NoTopicsMsg == <<"No topics found. Please go back and configure your topics.">>

Min(a, b) == IF a <= b THEN a ELSE b

\* JSON.stringify({ username, topics })
JSONstringifyBody(b) == <<"username", b.username, "topics", JSONstringifyTopics(b.topics)>>

\* JSON.parse of a request body's text
JSONparseBody(txt) == [username |-> txt[2], topics |-> JSONparseTopics(txt[4])]

\* the JSON text of a digest { papers, stats }; the text of the object
\* without fields, {}, is <<>>
JSONstringifyDigest(d) ==
    IF DOMAIN d = {} THEN <<>>
    ELSE <<"papers", [i \in 1..Len(d.papers) |-> <<d.papers[i].id, d.papers[i].topics>>],
           "stats", <<d.stats.fetched, d.stats.matched>>>>

\* JSON.parse of a digest's text
JSONparseDigest(txt) ==
    IF txt = <<>> THEN <<>>
    ELSE [papers |-> [i \in 1..Len(txt[2]) |->
                         [id |-> txt[2][i][1], topics |-> txt[2][i][2]]],
          stats  |-> [fetched |-> txt[4][1], matched |-> txt[4][2]]]

\* for (const p of data.papers) can iterate: data has a papers array
papersIterable(data) == DOMAIN data # {}

\* res.ok: the status is in the range 200-299
ok(res) == res.status >= 200 /\ res.status <= 299

\* the loop of runDigest that collects the topic names of data.papers in
\* order of first appearance, here by position i of the flattened topic lists
RECURSIVE flatTopics(_)
flatTopics(ps) ==
    IF ps = <<>> THEN <<>> ELSE Head(ps).topics \o flatTopics(Tail(ps))

RECURSIVE firstOccurrences(_, _)
firstOccurrences(ts, seen) ==
    IF ts = <<>> THEN <<>>
    ELSE IF Head(ts) \in seen
         THEN firstOccurrences(Tail(ts), seen)
         ELSE <<Head(ts)>> \o firstOccurrences(Tail(ts), seen \cup {Head(ts)})

topicNamesOf(ps) == firstOccurrences(flatTopics(ps), {})

Range(f) == { f[i] : i \in DOMAIN f }

\* topicNames.forEach((t, i) => { paletteMap[t] = i % CHIP_PALETTES.length })
paletteMapOf(names) ==
    [t \in Range(names) |->
        ((CHOOSE i \in 1..Len(names) : names[i] = t) - 1) % CHIP_PALETTES_length]

\* variant: every() in place of some()
filterPapers_Every(ps, active) ==
    SelectSeq(ps, LAMBDA p : \A i \in 1..Len(p.topics) : p.topics[i] \in active)

\* papers.filter(p => p.topics.some(t => activeTopics.has(t)))
filterPapers(ps, active) ==
    SelectSeq(ps, LAMBDA p : \E i \in 1..Len(p.topics) : p.topics[i] \in active)

filteredPapers == filterPapers(papers, activeTopics)

\* variant: one page more than the whole pages
totalPagesOf_FloorPlusOne(n) == (n \div PAGE_SIZE) + 1

\* Math.ceil(filteredPapers.length / PAGE_SIZE)
totalPagesOf(n) == (n + PAGE_SIZE - 1) \div PAGE_SIZE

totalPages == totalPagesOf(Len(filteredPapers))

\* variant: a page ends one paper late
slicePage_Inclusive(fp, page) ==
    SubSeq(fp, (page - 1) * PAGE_SIZE + 1, Min(page * PAGE_SIZE + 1, Len(fp)))

\* variant: a page starts one paper early for each page before it
slicePage_Overlap(fp, page) ==
    SubSeq(fp, (page - 1) * (PAGE_SIZE - 1) + 1, Min(page * PAGE_SIZE, Len(fp)))

\* filteredPapers.slice((page - 1) * PAGE_SIZE, page * PAGE_SIZE)
slicePage(fp, page) ==
    SubSeq(fp, (page - 1) * PAGE_SIZE + 1, Min(page * PAGE_SIZE, Len(fp)))

pagePapers == slicePage(filteredPapers, currentPage)

\* the paper cards the results screen renders
displayedPapers ==
    IF phase = "results" /\ Len(filteredPapers) # 0 THEN pagePapers ELSE <<>>

\* variant: the effect without its fetchedRef guard
effectReturnsEarly_Never == FALSE

\* the guard of the mount effect: if (fetchedRef.current) return;
effectReturnsEarly == fetchedRef

\* a sessionStorage item that is not the JSON text of a topic list
MalformedItem == << <<"{">> >>

\* JSON.parse(raw) returns: raw is the JSON text of a topic list
JSONparses(raw) == \A i \in 1..Len(raw) : Len(raw[i]) = 5

\* variant: an absent item reads as the empty list
parsedTopics_EmptyList(raw) ==
    IF raw # None THEN Some(JSONparseTopics(raw[1])) ELSE Some(<<>>)

\* const topics = raw ? JSON.parse(raw) : null
parsedTopics(raw) ==
    IF raw # None THEN Some(JSONparseTopics(raw[1])) ELSE None

\* runDigest up to its first await; the JSON.parse of line 66 is outside the
\* try block, so when it throws the promise of runDigest rejects and no
\* state is set
runDigest ==
    /\ runs' = runs + 1
    /\ LET raw == storage
           parsed == parsedTopics(raw)
       IN  IF raw # None /\ ~JSONparses(raw[1])
           THEN /\ pc' = "rejected"
                /\ UNCHANGED <<errorMsg, phase, runTopics, stepIdx, interval, pageReq>>
           ELSE IF parsed = None
           THEN /\ errorMsg' = NoTopicsMsg
                /\ phase' = "error"
                /\ pc' = "done"
                /\ UNCHANGED <<runTopics, stepIdx, interval, pageReq>>
           ELSE /\ runTopics' = parsed
                /\ stepIdx' = 0
                /\ interval' = TRUE
                /\ pageReq' = Append(pageReq,
                      JSONstringifyBody([username |-> Username, topics |-> parsed[1]]))
                /\ pc' = "awaitFetch"
                /\ UNCHANGED <<errorMsg, phase>>

\* the effect of DigestPage fires (on mount, and whenever React runs it again)
mountEffect ==
    /\ IF effectReturnsEarly
       THEN UNCHANGED <<fetchedRef, runs, pc, runTopics, stepIdx, interval,
                        errorMsg, phase, pageReq>>
       ELSE /\ fetchedRef' = TRUE
            /\ runDigest
    /\ UNCHANGED <<editorVars, coreVars, storage, resultsTimer, progress, progressLabel,
                   papers, stats, allTopics, activeTopics, topicPaletteMap,
                   currentPage, backendReq, backendRes, routeRes>>

\* variant: the interval may go on to the last step
lastTickStep_Last == Len(PROGRESS_STEPS) - 1

\* PROGRESS_STEPS.length - 2: the interval stops at "Assembling"
lastTickStep == Len(PROGRESS_STEPS) - 2

\* the progress interval fires
tick ==
    /\ interval
    /\ stepIdx' = Min(stepIdx + 1, lastTickStep)
    /\ progress' = PROGRESS_STEPS[stepIdx' + 1].pct
    /\ progressLabel' = PROGRESS_STEPS[stepIdx' + 1].label
    /\ UNCHANGED <<editorVars, coreVars, storage, fetchedRef, runs, pc, runTopics, interval,
                   resultsTimer, phase, papers, stats, errorMsg, allTopics,
                   activeTopics, topicPaletteMap, currentPage, netVars>>

\* the catch block of runDigest
catch(message) ==
    /\ interval' = FALSE
    /\ errorMsg' = IF message # <<>> THEN message ELSE <<"Something went wrong.">>
    /\ phase' = "error"
    /\ pc' = "done"

\* await fetch("/api/digest") settles with the route's response
fetchResolves ==
    /\ pc = "awaitFetch" /\ routeRes # None
    /\ interval' = FALSE
    /\ pc' = IF ~ok(routeRes[1]) THEN "awaitText" ELSE "awaitJson"
    /\ UNCHANGED <<editorVars, coreVars, storage, fetchedRef, runs, runTopics, stepIdx,
                   resultsTimer, viewVars, netVars>>

\* await fetch("/api/digest") rejects: the request never got an answer
fetchRejects ==
    /\ pc = "awaitFetch" /\ routeRes = None
    /\ catch(<<"Failed to fetch">>)
    /\ UNCHANGED <<editorVars, coreVars, storage, fetchedRef, runs, runTopics, stepIdx,
                   resultsTimer, progress, progressLabel, papers, stats,
                   allTopics, activeTopics, topicPaletteMap, currentPage, netVars>>

\* const txt = await res.text(); throw new Error(txt)
readText ==
    /\ pc = "awaitText"
    /\ catch(routeRes[1].body)
    /\ UNCHANGED <<editorVars, coreVars, storage, fetchedRef, runs, runTopics, stepIdx,
                   resultsTimer, progress, progressLabel, papers, stats,
                   allTopics, activeTopics, topicPaletteMap, currentPage, netVars>>

\* variant: keeps only the papers that have a topic
storedPapers_WithTopics(data) == SelectSeq(data.papers, LAMBDA p : p.topics # <<>>)

\* setPapers(data.papers)
storedPapers(data) == data.papers

\* const data = await res.json(), and the rest of the try block
readJson ==
    /\ pc = "awaitJson"
    /\ progress' = 100
    /\ progressLabel' = "Done!"
    /\ LET data == JSONparseDigest(routeRes[1].body)
           topicNames == topicNamesOf(data.papers)
       IN  IF ~papersIterable(data)
           THEN /\ catch(<<"data.papers is not iterable">>)
                /\ UNCHANGED <<allTopics, activeTopics, topicPaletteMap, papers, stats,
                               resultsTimer>>
           ELSE /\ allTopics' = topicNames
                /\ activeTopics' = Range(topicNames)
                /\ topicPaletteMap' = paletteMapOf(topicNames)
                /\ papers' = storedPapers(data)
                /\ stats' = Some(data.stats)
                /\ resultsTimer' = TRUE
                /\ pc' = "done"
                /\ UNCHANGED <<interval, phase, errorMsg>>
    /\ UNCHANGED <<editorVars, coreVars, storage, fetchedRef, runs, runTopics, stepIdx,
                   currentPage, netVars>>

\* the 600 ms timeout fires: setPhase("results")
showResults ==
    /\ resultsTimer
    /\ resultsTimer' = FALSE
    /\ phase' = "results"
    /\ UNCHANGED <<editorVars, coreVars, storage, fetchedRef, runs, pc, runTopics, stepIdx,
                   interval, progress, progressLabel, papers, stats, errorMsg,
                   allTopics, activeTopics, topicPaletteMap, currentPage, netVars>>

\* click on a topic chip
toggleTopic(t) ==
    /\ phase = "results" /\ t \in Range(allTopics)
    /\ activeTopics' = IF t \in activeTopics THEN activeTopics \ {t}
                       ELSE activeTopics \cup {t}
    /\ currentPage' = 1
    /\ UNCHANGED <<editorVars, coreVars, storage, runVars, phase, progress, progressLabel,
                   papers, stats, errorMsg, allTopics, topicPaletteMap, netVars>>

\* the pagination row is rendered
paginationShown == phase = "results" /\ Len(filteredPapers) # 0 /\ totalPages > 1

\* click on page number n
setPage(n) ==
    /\ paginationShown /\ n \in 1..totalPages
    /\ currentPage' = n
    /\ UNCHANGED <<editorVars, coreVars, storage, runVars, phase, progress, progressLabel,
                   papers, stats, errorMsg, allTopics, activeTopics,
                   topicPaletteMap, netVars>>

\* "Prev" (disabled on page 1): setCurrentPage(p => p - 1)
prevPage ==
    /\ paginationShown /\ currentPage # 1
    /\ currentPage' = currentPage - 1
    /\ UNCHANGED <<editorVars, coreVars, storage, runVars, phase, progress, progressLabel,
                   papers, stats, errorMsg, allTopics, activeTopics,
                   topicPaletteMap, netVars>>

\* "Next" (disabled on the last page): setCurrentPage(p => p + 1)
nextPage ==
    /\ paginationShown /\ currentPage # totalPages
    /\ currentPage' = currentPage + 1
    /\ UNCHANGED <<editorVars, coreVars, storage, runVars, phase, progress, progressLabel,
                   papers, stats, errorMsg, allTopics, activeTopics,
                   topicPaletteMap, netVars>>

---------------------------------------------------------------------------
(* The proxy route POST /api/digest *)

\* variant: forwards the topics under an empty username
forwardedBody_NoUsername(txt) ==
    JSONstringifyBody([username |-> "", topics |-> JSONparseBody(txt).topics])

\* const body = await req.json(); fetch(`${RAILWAY_URL}/digest`, { body: JSON.stringify(body) })
forwardedBody(txt) == JSONstringifyBody(JSONparseBody(txt))

routeForwards ==
    /\ Len(backendReq) < Len(pageReq)
    /\ backendReq' = Append(backendReq, forwardedBody(pageReq[Len(backendReq) + 1]))
    /\ UNCHANGED <<editorVars, coreVars, storage, runVars, viewVars, pageReq, backendRes, routeRes>>

\* variant: answers 500 whatever the backend's status
routeStatus_Always500(res) == 500

\* the status of NextResponse.json({ error: txt }, { status: res.status })
routeStatus(res) == res.status

\* what POST returns for the backend's response res
routeResponse(res) ==
    IF ~ok(res)
    THEN [status |-> routeStatus(res), body |-> <<"error", res.body>>]
    ELSE [status |-> 200, body |-> JSONstringifyDigest(JSONparseDigest(res.body))]

routeAnswers ==
    /\ backendRes # None /\ routeRes = None
    /\ routeRes' = Some(routeResponse(backendRes[1]))
    /\ UNCHANGED <<editorVars, coreVars, storage, runVars, viewVars, pageReq, backendReq, backendRes>>

---------------------------------------------------------------------------
(* The digest backend, POST <RAILWAY_URL>/digest.  Its code is not part of *)
(* the front end: its answers follow the digest interface (sections 4.4    *)
(* and 6 of the specification: matched counts the returned papers), except *)
(* that a returned paper may carry any topic list, the empty one included. *)

PaperTopicLists == { <<>>, <<"Agents">>, <<"Vision", "Agents">> }

\* how many fetched papers the backend may have dropped
DroppedCounts == { 0, 1 }

Digest(topicLists, dropped) ==
    [papers |-> [i \in 1..Len(topicLists) |-> [id |-> i, topics |-> topicLists[i]]],
     stats  |-> [fetched |-> Len(topicLists) + dropped, matched |-> Len(topicLists)]]

\* the topic lists of a papers array: every array of up to PatternLen
\* papers, and longer arrays that repeat a pattern of PatternLen topic lists
PaperTopicSeqs ==
    { [i \in 1..n |-> pat[((i - 1) % PatternLen) + 1]] :
        n \in 0..MaxPapers, pat \in [1..PatternLen -> PaperTopicLists] }

Digests == { Digest(tl, d) : tl \in PaperTopicSeqs, d \in DroppedCounts }

ErrorResponses ==
    { [status |-> 500, body |-> <<"Internal Server Error">>],
      [status |-> 503, body |-> <<>>] }

\* an answer with an OK status whose JSON object has no papers array
PaperlessResponse == [status |-> 200, body |-> <<>>]

BackendResponses ==
    { [status |-> 200, body |-> JSONstringifyDigest(d)] : d \in Digests }
      \cup ErrorResponses \cup { PaperlessResponse }

backendAnswers ==
    /\ Len(backendReq) > 0 /\ backendRes = None
    /\ \E r \in BackendResponses : backendRes' = Some(r)
    /\ UNCHANGED <<editorVars, coreVars, storage, runVars, viewVars, pageReq, backendReq, routeRes>>

---------------------------------------------------------------------------
(* The matching core: Lexical Matcher, Semantic Matcher, Match Aggregator, *)
(* Digest Assembler.  Its code is not part of the web front end; it is     *)
(* modelled from its design.                                               *)

\* the largest batch of papers of a run
MaxBatch == 2

\* the default similarity threshold 0.35, in hundredths
DefaultThreshold == 35

\* thresholds a run may be configured with
Thresholds == { DefaultThreshold, DefaultThreshold + 1 }

\* cosine similarities, in hundredths, around the thresholds
Similarities ==
    { DefaultThreshold - 1, DefaultThreshold, DefaultThreshold + 1 }

\* the topic configuration of the run, read once at its start: an enabled
\* topic with terms, an enabled topic without terms, a disabled topic, and
\* an enabled topic with terms and an empty description
CoreTopics ==
    << [id |-> "agents", enabled |-> TRUE,  terms |-> {"agent"}, description |-> "d"],
       [id |-> "vision", enabled |-> TRUE,  terms |-> {},        description |-> "d"],
       [id |-> "off",    enabled |-> FALSE, terms |-> {"agent"}, description |-> "d"],
       [id |-> "plain",  enabled |-> TRUE,  terms |-> {"plan"},  description |-> ""] >>

CoreTopicIds == { CoreTopics[i].id : i \in 1..Len(CoreTopics) }

topicOf(id) == CoreTopics[CHOOSE i \in 1..Len(CoreTopics) : CoreTopics[i].id = id]

\* a paper as the core sees it: the stemmed tokens of title + abstract, the
\* similarity of its abstract to a topic description, and whether the
\* embedding of its abstract can be computed
CorePapers ==
    [stems : { {}, {"agent"}, {"agent", "plan"} },
     similarity : Similarities,
     embeddingFails : BOOLEAN]

\* the batches of a run: papers 1..n in source order
CoreBatches == UNION { [1..n -> CorePapers] : n \in 1..MaxBatch }

EnabledTopicIds == { id \in CoreTopicIds : topicOf(id).enabled }

\* 4.1: a topic matches if any of its terms is among the paper's stems
lexicallyMatches(paper, topic) == topic.terms \cap paper.stems # {}

\* 4.1: the Lexical Matcher processes paper p over the enabled topics
lexicalMatcher(p) ==
    /\ p \in 1..Len(corePapers) /\ p \notin kwDone
    /\ kwMatches' = kwMatches \cup
          { <<p, id>> : id \in { t \in EnabledTopicIds :
                                   lexicallyMatches(corePapers[p], topicOf(t)) } }
    /\ kwDone' = kwDone \cup {p}
    /\ UNCHANGED <<corePapers, threshold, semDone, semEvaluated, semMatches, digest>>
    /\ UNCHANGED <<editorVars, storage, digestVars>>

\* variant: every enabled topic with a description is a candidate
candidateTopics_AllEnabled(p) ==
    { id \in EnabledTopicIds : topicOf(id).description # "" }

\* 4.2, 9: the candidates of paper p = all enabled topics minus the
\* already lexically matched ones; topics with an empty description are
\* never evaluated
candidateTopics(p) ==
    { id \in EnabledTopicIds :
         <<p, id>> \notin kwMatches /\ topicOf(id).description # "" }

\* variant: a similarity equal to the threshold is no match
meetsThreshold_Strict(sim, thr) == sim > thr

\* 4.2: a topic matches if similarity >= threshold
meetsThreshold(sim, thr) == sim >= thr

\* variant: a failed embedding is not noticed
embeddingAvailable_Always(p) == TRUE

\* 4.2 failure semantics: the embedding of paper p's abstract was computed
embeddingAvailable(p) == ~corePapers[p].embeddingFails

\* 4.2: the Semantic Matcher processes paper p, after the Lexical Matcher;
\* when the embedding fails it evaluates nothing and records no match
semanticMatcher(p) ==
    /\ p \in kwDone /\ p \notin semDone
    /\ IF embeddingAvailable(p)
       THEN /\ semEvaluated' = semEvaluated \cup { <<p, id>> : id \in candidateTopics(p) }
            /\ semMatches' = semMatches \cup
                  { <<p, id>> : id \in { t \in candidateTopics(p) :
                        meetsThreshold(corePapers[p].similarity, threshold) } }
       ELSE UNCHANGED <<semEvaluated, semMatches>>
    /\ semDone' = semDone \cup {p}
    /\ UNCHANGED <<corePapers, threshold, kwDone, kwMatches, digest>>
    /\ UNCHANGED <<editorVars, storage, digestVars>>

\* 4.3: the methods that fired for a (paper, topic) pair
methodsOf(p, id) ==
    (IF <<p, id>> \in kwMatches THEN {"keyword"} ELSE {})
       \cup (IF <<p, id>> \in semMatches THEN {"semantic"} ELSE {})

\* 4.3: the topics a paper matched by either layer
matchedTopics(p) == { id \in CoreTopicIds : methodsOf(p, id) # {} }

\* 4.3: the DigestEntry of paper p
entryOf(p) ==
    [paper |-> p, topics |-> matchedTopics(p),
     methods |-> [id \in matchedTopics(p) |-> methodsOf(p, id)]]

\* 4.3: the retained papers, in source order
RECURSIVE retained(_)
retained(n) ==
    IF n = 0 THEN <<>>
    ELSE IF matchedTopics(n) = {} THEN retained(n - 1)
    ELSE Append(retained(n - 1), entryOf(n))

\* 4.3, 4.4: once every paper passed both layers, aggregate and assemble
assembleDigest ==
    /\ digest = None
    /\ semDone = 1..Len(corePapers)
    /\ digest' = Some([fetched |-> Len(corePapers),
                       matched |-> Len(retained(Len(corePapers))),
                       entries |-> retained(Len(corePapers))])
    /\ UNCHANGED <<corePapers, threshold, kwDone, kwMatches, semDone,
                   semEvaluated, semMatches>>
    /\ UNCHANGED <<editorVars, storage, digestVars>>

\* no run of the core
CoreIdle ==
    /\ corePapers = <<>> /\ threshold = DefaultThreshold
    /\ kwDone = {} /\ kwMatches = {} /\ semDone = {}
    /\ semEvaluated = {} /\ semMatches = {} /\ digest = None

\* a run of the core starts: its batch and its configuration are given
CoreInit ==
    /\ corePapers \in CoreBatches /\ threshold \in Thresholds
    /\ kwDone = {} /\ kwMatches = {} /\ semDone = {}
    /\ semEvaluated = {} /\ semMatches = {} /\ digest = None

---------------------------------------------------------------------------
(* Specifications *)

DigestPageInit ==
    /\ fetchedRef = FALSE /\ runs = 0 /\ pc = "idle" /\ runTopics = None
    /\ stepIdx = 0 /\ interval = FALSE /\ resultsTimer = FALSE
    /\ phase = "loading" /\ progress = 0
    /\ progressLabel = PROGRESS_STEPS[1].label
    /\ papers = <<>> /\ stats = None /\ errorMsg = <<>>
    /\ allTopics = <<>> /\ activeTopics = {} /\ topicPaletteMap = <<>>
    /\ currentPage = 1
    /\ pageReq = <<>> /\ backendReq = <<>> /\ backendRes = None /\ routeRes = None

UserPageInit ==
    /\ editorMounted = TRUE /\ loading = TRUE /\ topics = <<>>
    /\ saving = FALSE /\ pending = <<>>
    /\ addingTopic = FALSE /\ newTopicName = <<>> /\ newTopicDesc = <<>>
    /\ saves = 0 /\ lastPersisted = None
    /\ kvTopics \in InitialTopicLists

\* what an earlier "Show Digest" of the session may have left in sessionStorage
StoredBefore ==
    { None } \cup
    { Some(JSONstringifyTopics(l)) : l \in { m \in InitialTopicLists : Len(m) = 1 } }

\* what sessionStorage may hold under the key when the digest page mounts
StorageContents == StoredBefore \cup { Some(MalformedItem) }

\* The topic editor alone
InitEditor == UserPageInit /\ storage = None /\ DigestPageInit /\ CoreIdle

NextEditor ==
    \/ loadTopics
    \/ persistDone
    \/ openNewTopic
    \/ cancelNewTopic
    \/ \E v \in NameInputs : setNewTopicName(v)
    \/ \E v \in DescInputs : setNewTopicDesc(v)
    \/ \E id \in IdUniverse : toggleEnabled(id)
    \/ \E id \in IdUniverse, term \in TermUniverse : removeTerm(id, term)
    \/ \E id \in IdUniverse, v \in TermInputs : addTerm(id, v)
    \/ \E id \in IdUniverse : removeTopic(id)
    \/ addTopic
    \/ \E id \in IdUniverse, v \in CardDescInputs : updateDescription(id, v)
    \/ saveDescription

SpecEditor == InitEditor /\ [][NextEditor]_vars

\* The digest page, the proxy route and the backend, with an editor that
\* loads its topics and hands them over
InitDigest ==
    UserPageInit /\ storage \in StorageContents /\ DigestPageInit /\ CoreIdle

NextDigest ==
    \/ loadTopics
    \/ showDigest
    \/ mountEffect
    \/ tick
    \/ routeForwards
    \/ backendAnswers
    \/ routeAnswers
    \/ fetchResolves
    \/ fetchRejects
    \/ readText
    \/ readJson
    \/ showResults
    \/ \E t \in UNION { Range(l) : l \in PaperTopicLists } : toggleTopic(t)
    \/ \E n \in 1..(MaxPapers + 1) : setPage(n)
    \/ prevPage
    \/ nextPage

SpecDigest == InitDigest /\ [][NextDigest]_vars

Spec == SpecDigest

\* One mount of the digest page alone, with the scheduling the runtime
\* gives it: React runs the mount effect, the event loop resumes an async
\* function whose awaited promise has settled and fires a timer that is due,
\* and the route and the backend answer the requests they receive.
NextRun ==
    \/ mountEffect
    \/ tick
    \/ routeForwards
    \/ backendAnswers
    \/ routeAnswers
    \/ fetchResolves
    \/ fetchRejects
    \/ readText
    \/ readJson
    \/ showResults

FairRun ==
    /\ WF_vars(mountEffect)
    /\ WF_vars(routeForwards) /\ WF_vars(backendAnswers) /\ WF_vars(routeAnswers)
    /\ WF_vars(fetchResolves) /\ WF_vars(readText) /\ WF_vars(readJson)
    /\ WF_vars(showResults)

SpecRun == InitDigest /\ [][NextRun]_vars /\ FairRun

\* The hand-off of the topic list: the editor with its enable switches and
\* description fields, "Show Digest", the mount of the digest page and the
\* proxy route
NextHandOff ==
    \/ loadTopics
    \/ \E id \in IdUniverse : toggleEnabled(id)
    \/ \E id \in IdUniverse, v \in CardDescInputs : updateDescription(id, v)
    \/ showDigest
    \/ mountEffect
    \/ routeForwards

SpecHandOff == InitDigest /\ [][NextHandOff]_vars

\* One run of the matching core alone
InitCore ==
    /\ UserPageInit /\ kvTopics = <<>> /\ storage = None /\ DigestPageInit
    /\ CoreInit

NextCore ==
    \/ \E p \in 1..MaxBatch : lexicalMatcher(p)
    \/ \E p \in 1..MaxBatch : semanticMatcher(p)
    \/ assembleDigest

\* the core is a batch job: it goes on while a step remains
SpecCore == InitCore /\ [][NextCore]_vars /\ WF_vars(NextCore)

---------------------------------------------------------------------------
(* Properties of the digest page (SpecDigest) *)

HasActiveTopic(paper) ==
    \E i \in 1..Len(paper.topics) : paper.topics[i] \in activeTopics

\* C1: a paper whose topic list is empty is on no page of the filtered
\* papers and is never displayed; every paper of a page, and every displayed
\* paper, has at least one topic that is active.
C1_DisplayedHaveActiveTopic ==
    /\ \A p \in 1..(Len(papers) + 1) :
          \A k \in 1..Len(slicePage(filteredPapers, p)) :
             /\ slicePage(filteredPapers, p)[k].topics # <<>>
             /\ HasActiveTopic(slicePage(filteredPapers, p)[k])
    /\ \A k \in 1..Len(displayedPapers) :
          /\ displayedPapers[k].topics # <<>>
          /\ HasActiveTopic(displayedPapers[k])

\* C1 witness: results are shown after a topic chip was switched off, the
\* backend sent a paper without topics, and some paper is displayed.
C1_Witness ==
    /\ phase = "results"
    /\ \E i \in 1..Len(papers) : papers[i].topics = <<>>
    /\ activeTopics # Range(allTopics)
    /\ displayedPapers # <<>>

RECURSIVE IsSubsequence(_, _)
IsSubsequence(s, t) ==
    IF s = <<>> THEN TRUE
    ELSE IF t = <<>> THEN FALSE
    ELSE IF Head(s) = Head(t) THEN IsSubsequence(Tail(s), Tail(t))
    ELSE IsSubsequence(s, Tail(t))

\* the papers of pages from, from + 1, ..., totalPages, read in sequence
RECURSIVE PagesFrom(_)
PagesFrom(from) ==
    IF from > totalPages THEN <<>>
    ELSE slicePage(filteredPapers, from) \o PagesFrom(from + 1)

\* C2: the papers of page 1, page 2, ... read in sequence are a subsequence
\* of the papers array received from the backend, and so is the page shown.
C2_PagesKeepBackendOrder ==
    /\ IsSubsequence(PagesFrom(1), papers)
    /\ IsSubsequence(displayedPapers, papers)

\* C2 witness: the second of several pages is shown while a filter has
\* removed some papers.
C2_Witness ==
    /\ phase = "results"
    /\ totalPages >= 2 /\ currentPage = 2
    /\ Len(filteredPapers) < Len(papers)
    /\ displayedPapers # <<>>

\* C3: once the page holds stats (a run succeeded), and in particular in
\* phase "results", stats.matched is the number of papers held.
C3_MatchedEqualsPapers ==
    /\ phase = "results" => stats # None
    /\ stats # None => stats[1].matched = Len(papers)

\* C3 witness: results are shown for a digest of several papers of which the
\* backend dropped one.
C3_Witness ==
    /\ phase = "results"
    /\ Len(papers) >= 2
    /\ stats[1].fetched > stats[1].matched

\* C4: when the backend answered non-OK, the route answers with the same
\* status and an error body, and the page holds no papers and no stats, has
\* no results timer pending, is not in phase "results", and is in phase
\* "error" once runDigest has ended.
C4_NonOkIsAFailure ==
    (backendRes # None /\ ~ok(backendRes[1])) =>
        /\ routeRes # None =>
              /\ routeRes[1].status = backendRes[1].status
              /\ ~ok(routeRes[1])
              /\ routeRes[1].body = <<"error", backendRes[1].body>>
        /\ papers = <<>> /\ stats = None
        /\ ~resultsTimer
        /\ phase # "results"
        /\ pc = "done" => phase = "error"

\* C4 witness: the backend answered 503, the route passed it on, and the
\* page shows the route's error text.
C4_Witness ==
    /\ backendRes # None /\ backendRes[1].status = 503
    /\ routeRes # None
    /\ pc = "done" /\ phase = "error"
    /\ errorMsg = routeRes[1].body

\* the topic lists of the bodies the backend received
Submitted == { JSONparseBody(backendReq[k]).topics : k \in 1..Len(backendReq) }

\* C5 as claimed: no submitted topic list holds a topic with enabled=false.
C5_NoDisabledTopicSubmitted ==
    \A ts \in Submitted : \A i \in 1..Len(ts) : ts[i].enabled

\* the lists a "Show Digest" click has stored: the editor's list at the
\* click of this session, and the lists of earlier clicks
HandedOver ==
    (IF ~editorMounted THEN { topics } ELSE {})
      \cup { JSONparseTopics(st[1]) : st \in StoredBefore \ { None } }

\* C5 amended: every submitted topic list is a whole list the editor held
\* at a "Show Digest" click, every topic with its enabled flag, the disabled
\* ones included, and it holds at least one enabled topic.
C5_SubmittedIsWholeList ==
    \A ts \in Submitted : ts \in HandedOver /\ enabledCount(ts) > 0

\* C5 witness: the backend received the list of this session's click, which
\* holds a disabled topic.
C5_Witness ==
    /\ ~editorMounted
    /\ topics \in Submitted
    /\ \E i \in 1..Len(topics) : ~topics[i].enabled

\* C6: a mount starts runDigest at most once; the snapshot, the request
\* sent and forwarded, and the papers and stats shown never change once
\* set, whatever is stored later; the request carries the snapshot, and the
\* papers and stats shown are those of the backend's answer.
C6_TopicsReadOncePerRun ==
    [][ /\ runs' <= 1
        /\ Len(pageReq') <= 1
        /\ runTopics # None => runTopics' = runTopics
        /\ pageReq # <<>> => pageReq' = pageReq
        /\ backendReq # <<>> => backendReq' = backendReq
        /\ stats # None => (stats' = stats /\ papers' = papers)
        /\ \A k \in 1..Len(pageReq') :
              pageReq'[k] = JSONstringifyBody(
                               [username |-> Username, topics |-> runTopics'[1]])
        /\ \A k \in 1..Len(backendReq') : backendReq'[k] = pageReq'[k]
        /\ stats' # None =>
              /\ backendRes' # None
              /\ papers' = JSONparseDigest(backendRes'[1].body).papers
              /\ stats'[1] = JSONparseDigest(backendRes'[1].body).stats
      ]_vars

\* C6 witness: results are shown for a run whose snapshot is no longer what
\* sessionStorage holds.
C6_Witness ==
    /\ phase = "results" /\ papers # <<>>
    /\ runTopics # None /\ storage # Some(JSONstringifyTopics(runTopics[1]))
    /\ backendReq # <<>>

\* the fetch of runDigest has settled, or the run ended before it
Settled == pc \notin { "idle", "awaitFetch" }

\* C16: while the request is in flight the percentage shown never
\* decreases, is at most 88, and the label is not "Done!"; once the request
\* has settled the interval is cleared and no step is a tick.
C16_ProgressStopsAtAssembling ==
    [][ /\ pc' = "awaitFetch" =>
              /\ progress' >= progress
              /\ progress' <= 88
              /\ progressLabel' # "Done!"
        /\ Settled => (~tick /\ ~interval')
        /\ Settled' => ~interval'
      ]_vars

\* C16 witness: a run failed after its progress had reached the
\* "Assembling digest" step, and shows 88 with the interval cleared.
C16_Witness ==
    /\ pc = "done" /\ phase = "error"
    /\ progress = 88 /\ progressLabel = PROGRESS_STEPS[5].label
    /\ stepIdx = 4 /\ ~interval

\* C17: 100% means the run succeeded.  In every reachable state of the
\* digest page, phase "results" implies that progress is 100 with the label
\* "Done!", and phase "error" implies that progress is below 100.
C17_HundredMeansSuccess ==
    /\ phase = "results" => (progress = 100 /\ progressLabel = "Done!")
    /\ phase = "error" => progress < 100

\* the lists an earlier "Show Digest" click of the session has stored
ClickedBefore == { JSONparseTopics(st[1]) : st \in StoredBefore \ { None } }

\* C18: the topics field of every POST /api/digest body the digest page
\* sends is, element for element and in order, the editor's list at the
\* "Show Digest" click (unsaved description edits included): the list of
\* this session's click once it has happened, else the list of an earlier
\* click; the body names the same username; and the route forwards every
\* body to the backend unchanged.
C18_HandOffRoundTrips ==
    [][ /\ pageReq' # pageReq =>
              LET body == JSONparseBody(pageReq'[Len(pageReq')])
              IN  /\ body.username = Username
                  /\ IF ~editorMounted THEN body.topics = topics
                     ELSE body.topics \in ClickedBefore
        /\ \A k \in 1..Len(backendReq') : backendReq'[k] = pageReq'[k]
      ]_vars

\* C18 witness: the backend received the list of this session's click, which
\* holds a description edit that was never saved.
C18_Witness ==
    /\ ~editorMounted /\ lastPersisted = None /\ topics # kvTopics
    /\ Len(backendReq) = 1
    /\ JSONparseBody(backendReq[1]).topics = topics

\* the digest page as DigestPage constructs it, but for phase and errorMsg
NothingStarted ==
    /\ pageReq = <<>> /\ backendReq = <<>>
    /\ ~interval /\ stepIdx = 0 /\ ~resultsTimer
    /\ papers = <<>> /\ stats = None /\ allTopics = <<>>
    /\ progress = 0 /\ progressLabel = PROGRESS_STEPS[1].label

\* C19: when the mount effect runs while sessionStorage holds no item for
\* the username, the page goes to phase "error" with the message "No topics
\* found. Please go back and configure your topics."; it sends no request,
\* starts no progress timer and leaves papers, stats and progress at their
\* initial values, then and ever after.
C19_NoTopicsIsAnError ==
    [][ /\ (storage = None /\ ~fetchedRef /\ fetchedRef') =>
              /\ phase' = "error"
              /\ errorMsg' =
                    <<"No topics found. Please go back and configure your topics.">>
              /\ NothingStarted'
        /\ (fetchedRef /\ runTopics = None /\ pc = "done") =>
              /\ phase' = "error" /\ errorMsg' = errorMsg
              /\ NothingStarted'
      ]_vars

\* C19 witness: the page is in the no-topics error with nothing started, and
\* a later "Show Digest" has stored a list that changes none of it.
C19_Witness ==
    /\ phase = "error" /\ errorMsg = NoTopicsMsg
    /\ fetchedRef /\ runTopics = None /\ pc = "done"
    /\ storage # None /\ ~editorMounted
    /\ NothingStarted

\* C20: the phase only moves from "loading" to "results" or from "loading"
\* to "error"; "results" and "error" are never left, so no behaviour visits
\* both (a page in "results" has shown no error, a page in "error" has no
\* timer pending that would show the results); papers, stats and allTopics
\* are written by one step of the run, together, and never again.
C20_PhaseIsTerminal ==
    [][ /\ phase # "loading" => phase' = phase
        /\ phase' # phase => phase' \in { "results", "error" }
        /\ phase' = "results" => (errorMsg' = <<>> /\ stats' # None)
        /\ phase' = "error" => (~resultsTimer' /\ stats' = None)
        /\ stats # None => UNCHANGED <<papers, stats, allTopics>>
        /\ stats' = None => (papers' = <<>> /\ allTopics' = <<>>)
      ]_vars

\* C20 witness: the page shows the results of a run, papers included, and
\* the reader has since switched a topic chip off.
C20_Witness ==
    /\ phase = "results" /\ runs = 1 /\ errorMsg = <<>>
    /\ Len(papers) > 0 /\ stats # None
    /\ activeTopics # Range(allTopics)

\* C22: in the results phase, whenever a paper passes the filter, the
\* current page is at least 1 and at most totalPages, totalPages is the
\* least number of pages of PAGE_SIZE papers that hold the filtered papers,
\* and the page shown is not empty.
C22_CurrentPageInRange ==
    (phase = "results" /\ Len(filteredPapers) > 0) =>
        /\ 1 <= currentPage /\ currentPage <= totalPages
        /\ totalPages * PAGE_SIZE >= Len(filteredPapers)
        /\ (totalPages - 1) * PAGE_SIZE < Len(filteredPapers)
        /\ pagePapers # <<>>

\* C22 witness: with a topic chip switched off, the reader has gone to the
\* second and last page of the filtered papers.
C22_Witness ==
    /\ phase = "results" /\ activeTopics # Range(allTopics)
    /\ Len(filteredPapers) < Len(papers)
    /\ totalPages = 2 /\ currentPage = 2

\* the pages 1..totalPages of fp, each as slicePage cuts it
PagesOf(fp) == [p \in 1..totalPagesOf(Len(fp)) |-> slicePage(fp, p)]

\* C23: the pages 1..totalPages partition the filtered papers: every
\* filtered paper is on exactly one page, the pages read in sequence are the
\* filtered list, no page is empty or holds more than PAGE_SIZE papers, and
\* every page but the last holds exactly PAGE_SIZE.
C23_PagesPartitionFiltered ==
    LET fp == filteredPapers
        pages == PagesOf(fp)
        holding(paper) ==
            { p \in 1..Len(pages) : \E k \in 1..Len(pages[p]) : pages[p][k] = paper }
    IN  /\ Len(pages) = totalPages
        /\ \A i \in 1..Len(fp) : Cardinality(holding(fp[i])) = 1
        /\ PagesFrom(1) = fp
        /\ \A p \in 1..Len(pages) :
              /\ 1 <= Len(pages[p]) /\ Len(pages[p]) <= PAGE_SIZE
              /\ p < Len(pages) => Len(pages[p]) = PAGE_SIZE

\* C23 witness: a filter that removes some papers leaves a full first page
\* and a shorter second and last page.
C23_Witness ==
    /\ phase = "results" /\ Len(filteredPapers) < Len(papers)
    /\ totalPages = 2 /\ currentPage = 1
    /\ Len(slicePage(filteredPapers, 1)) = PAGE_SIZE
    /\ Len(slicePage(filteredPapers, 2)) \in 1..(PAGE_SIZE - 1)

---------------------------------------------------------------------------
(* Properties of the topic editor (SpecEditor) *)

NoDuplicateTerms(ts) ==
    \A i \in 1..Len(ts) :
       \A j, k \in 1..Len(ts[i].terms) : j # k => ts[i].terms[j] # ts[i].terms[k]

\* a string that is empty or holds white space only
IsBlank(str) == \A i \in 1..Len(str) : str[i] = " "

\* the string without its leading and trailing white space
Trimmed(str) ==
    LET I == { i \in 1..Len(str) : str[i] # " " }
    IN  IF I = {} THEN <<>>
        ELSE SubSeq(str, CHOOSE i \in I : \A j \in I : i <= j,
                         CHOOSE i \in I : \A j \in I : j <= i)

\* some topic with this id already has the term
TermPresent(ts, id, term) ==
    \E i \in 1..Len(ts) : ts[i].id = id /\ includes(ts[i].terms, term)

\* C7: no terms list ever holds a string twice; an addTerm whose input is
\* blank or already present changes neither the topic list nor the saves
\* sent; any other addTerm appends the trimmed input at the end of the terms
\* of the topics with that id and changes nothing else of the list.
C7_TermsAreOrderedSets ==
    [][ /\ NoDuplicateTerms(topics')
        /\ \A id \in IdUniverse, v \in TermInputs :
              addTerm(id, v) =>
                 IF IsBlank(v) \/ TermPresent(topics, id, Trimmed(v))
                 THEN UNCHANGED <<topics, pending, saves>>
                 ELSE /\ Len(topics') = Len(topics)
                      /\ saves' = saves + 1
                      /\ \A i \in 1..Len(topics) :
                            topics'[i] =
                               IF topics[i].id = id
                               THEN [topics[i] EXCEPT
                                       !.terms = topics[i].terms \o <<Trimmed(v)>>]
                               ELSE topics[i]
      ]_vars

\* C7 witness: addTerm has appended "x" to both of two topics that share an
\* id, after "y" in the first.
C7_Witness ==
    \E i, j \in 1..Len(topics) :
       /\ i < j /\ topics[i].id = topics[j].id
       /\ topics[i].terms = << <<"y">>, <<"x">> >>
       /\ topics[j].terms = << <<"x">> >>

\* C8: toggleEnabled(id) keeps the number and order of the topics and every
\* id, name, terms and description, flips the enabled flag of the topics
\* with that id and of no other, and applied again restores the list.
C8_ToggleChangesOnlyEnabled ==
    [][ \A id \in IdUniverse :
           toggleEnabled(id) =>
              /\ Len(topics') = Len(topics)
              /\ \A i \in 1..Len(topics) :
                    /\ topics'[i].id = topics[i].id
                    /\ topics'[i].name = topics[i].name
                    /\ topics'[i].terms = topics[i].terms
                    /\ topics'[i].description = topics[i].description
                    /\ topics'[i].enabled =
                          IF topics[i].id = id THEN ~topics[i].enabled
                          ELSE topics[i].enabled
              /\ toggleEnabledMap(topics', id) = topics
      ]_vars

\* C8 witness: the one save sent so far carries a loaded list with the
\* enabled flag of one id flipped, which is the editor's list.
C8_Witness ==
    /\ saves = 1
    /\ pending = << <<"topics", JSONstringifyTopics(topics)>> >>
    /\ \E l \in InitialTopicLists, id \in IdUniverse :
          /\ Len(l) = 2 /\ Len(topics) = 2
          /\ topics # l
          /\ \A i \in 1..2 :
                /\ [topics[i] EXCEPT !.enabled = TRUE] = [l[i] EXCEPT !.enabled = TRUE]
                /\ topics[i].enabled = (IF l[i].id = id THEN ~l[i].enabled ELSE l[i].enabled)

\* C9 as claimed: the topic addTopic appends has id = slugify(name) for the
\* name it stores.
C9_IdIsSlugOfStoredName ==
    [][ addTopic =>
           \A i \in (Len(topics) + 1)..Len(topics') :
              topics'[i].id = slugify(topics'[i].name)
      ]_vars

\* C10: an addTopic whose name field is blank changes neither the topic
\* list, nor the two fields of the form, nor the saves sent; no topic of the
\* list ever has an empty name.
C10_BlankNameIsRejected ==
    [][ /\ (addTopic /\ IsBlank(newTopicName)) =>
              UNCHANGED <<topics, newTopicName, newTopicDesc, addingTopic,
                          pending, saves, saving>>
        /\ \A i \in 1..Len(topics') : topics'[i].name # <<>>
      ]_vars

\* C10 witness: the form holds a blank name and a description beside a
\* loaded topic list, a topic was added before, and no save is in flight.
C10_Witness ==
    /\ addingTopic /\ newTopicName = <<" ">> /\ newTopicDesc = <<"d", " ">>
    /\ saves = 1 /\ pending = <<>>
    /\ Len(topics) = 3

\* no two topics of the list share an id
DistinctIds(ts) == \A i, j \in 1..Len(ts) : ts[i].id = ts[j].id => i = j

\* C21 as claimed: addTopic and removeTopic applied to a list whose ids are
\* distinct give a list whose ids are distinct, so that from a list with
\* distinct ids no two topics ever share an id.
C21_IdsStayDistinct ==
    [][ (DistinctIds(topics) /\ (addTopic \/ \E id \in IdUniverse : removeTopic(id)))
           => DistinctIds(topics')
      ]_vars

\* C11 as claimed: when the editor's list is the one of its latest save
\* (every change was saved, a description edit by its blur) and every save
\* request has completed, the topics store holds the editor's list.
C11_StoreHoldsEditorList ==
    (~loading /\ pending = <<>> /\ lastPersisted = Some(topics)) =>
        kvTopics = topics

---------------------------------------------------------------------------
(* Properties of one digest run (SpecRun) *)

\* C12 as claimed: once the mount effect has run, the page eventually
\* leaves phase "loading".
C12_RunLeavesLoading == fetchedRef ~> (phase # "loading")

---------------------------------------------------------------------------
(* Properties of the matching core (SpecCore) *)

\* C13: the Semantic Matcher evaluates a (paper, topic) pair only for an
\* enabled topic, only after the Lexical Matcher processed the paper, and
\* only if it did not match the pair; no pair is matched by both layers, and
\* every topic of a digest entry carries exactly one method.
C13_LayerPrecedence ==
    /\ \A pair \in semEvaluated :
          /\ topicOf(pair[2]).enabled
          /\ pair[1] \in kwDone
          /\ pair \notin kwMatches
    /\ kwMatches \cap semMatches = {}
    /\ digest # None =>
          \A k \in 1..Len(digest[1].entries) :
             \A id \in digest[1].entries[k].topics :
                Cardinality(digest[1].entries[k].methods[id]) = 1

\* C13 witness: a digest entry holds a topic matched by keyword and another
\* matched semantically.
C13_Witness ==
    /\ digest # None
    /\ \E k \in 1..Len(digest[1].entries) :
          \E a, b \in digest[1].entries[k].topics :
             /\ digest[1].entries[k].methods[a] = {"keyword"}
             /\ digest[1].entries[k].methods[b] = {"semantic"}

\* the topics a paper matches lexically, from the paper alone
LexicalOf(paper) ==
    { id \in CoreTopicIds :
         topicOf(id).enabled /\ topicOf(id).terms \cap paper.stems # {} }

\* the topics a paper matches semantically when its embedding is computed
SemanticOf(paper) ==
    { id \in CoreTopicIds :
         /\ topicOf(id).enabled /\ topicOf(id).description # ""
         /\ id \notin LexicalOf(paper)
         /\ paper.similarity >= threshold }

\* the entries of the digest for paper p (none, or one)
EntriesFor(p) ==
    { digest[1].entries[k] :
         k \in { j \in 1..Len(digest[1].entries) : digest[1].entries[j].paper = p } }

\* C14: the run reaches its digest whatever embeddings fail; in the digest
\* a paper whose embedding failed has no semantic match and, if it matched
\* a topic lexically, an entry with exactly its lexical matches, each with
\* method keyword; every other paper has the matches it has on its own.
C14_EmbeddingFailureIsLocal ==
    /\ <>(digest # None)
    /\ [](digest # None =>
            \A p \in 1..Len(corePapers) :
               LET paper == corePapers[p]
                   expected == IF paper.embeddingFails THEN LexicalOf(paper)
                               ELSE LexicalOf(paper) \cup SemanticOf(paper)
               IN  /\ paper.embeddingFails =>
                          \A id \in CoreTopicIds : <<p, id>> \notin semMatches
                   /\ IF expected = {} THEN EntriesFor(p) = {}
                      ELSE \E e \in EntriesFor(p) :
                              /\ EntriesFor(p) = {e}
                              /\ e.topics = expected
                              /\ \A id \in e.topics :
                                    e.methods[id] =
                                       IF id \in LexicalOf(paper) THEN {"keyword"}
                                       ELSE {"semantic"})

\* C14 witness: the digest holds a paper whose embedding failed, which
\* would otherwise have matched semantically too, with its keyword match
\* only, beside a paper matched semantically.
C14_Witness ==
    /\ digest # None
    /\ \E p, q \in 1..Len(corePapers) :
          /\ corePapers[p].embeddingFails
          /\ corePapers[p].similarity >= threshold
          /\ \E e \in EntriesFor(p) : e.topics = {"agents"}
          /\ ~corePapers[q].embeddingFails
          /\ \E e \in EntriesFor(q) : \E id \in e.topics : e.methods[id] = {"semantic"}

\* C15: a pair the Semantic Matcher evaluated is a semantic match exactly
\* when the similarity is >= the threshold, and only evaluated pairs match.
C15_ThresholdBoundary ==
    /\ semMatches \subseteq semEvaluated
    /\ \A pair \in semEvaluated :
          pair \in semMatches <=> corePapers[pair[1]].similarity >= threshold

\* C15 witness: a pair with similarity equal to the threshold matched, and
\* a pair with similarity one hundredth below it was evaluated and did not.
C15_Witness ==
    \E pair, other \in semEvaluated :
       /\ corePapers[pair[1]].similarity = threshold
       /\ pair \in semMatches
       /\ corePapers[other[1]].similarity = threshold - 1
       /\ other \notin semMatches

====
